---- MODULE Spec2Model ----
(***************************************************************************)
(* Polaris backend: pitch analysis endpoints (input validation, PDF text   *)
(* extraction with three fallback strategies, LLM analysis) and the        *)
(* investor catalog service.                                               *)
(*                                                                         *)
(* Text is a sequence of runs [c |-> character, n |-> repetitions], so a   *)
(* 90000-character pitch is one run; len(), strip() and "\n".join() are    *)
(* computed on runs exactly as Python computes them on characters.         *)
(***************************************************************************)
EXTENDS Integers, Sequences, FiniteSets, TLC

VARIABLES req, ext, db, coll, clock, nextId, ret, calls

vars == <<req, ext, db, coll, clock, nextId, ret, calls>>

(***************************************************************************)
(* Bounds of the model.                                                    *)
(***************************************************************************)
MaxPages == 2
MaxRecords == 2
MaxClock == 1
MaxPage == 4
MaxPageSize == 2
MaxMarkup == 3
MaxDocs == 5
MaxBatch == 2
MaxCalls == 2

(***************************************************************************)
(* Program constants.                                                      *)
(***************************************************************************)
min_pitch_length == 90
max_pitch_length == 90000
max_file_size == 10485760
ExtractThreshold == 50
PitchRequestMinLength == 1
PitchRequestMaxLength == 50000

(***************************************************************************)
(* Text: Python str as a sequence of runs.                                 *)
(***************************************************************************)
Run(ch, k) == [c |-> ch, n |-> k]

X(k) == <<Run("x", k)>>

SP == <<Run(" ", 1)>>

NL == <<Run("\n", 1)>>

EmptyText == <<>>

\* str.isspace() for the characters of the model
IsSpace(ch) == ch \in {" ", "\n"}

\* number of characters one repetition of a run stands for: the entity
\* tails "amp;", "lt;" and "gt;" are kept as one unit
Width(ch) ==
    CASE ch = "amp;" -> 4
      [] ch \in {"lt;", "gt;"} -> 3
      [] OTHER -> 1

RECURSIVE TLen(_)
\* len(text)
TLen(t) == IF t = <<>> THEN 0 ELSE Head(t).n * Width(Head(t).c) + TLen(Tail(t))

RECURSIVE LStrip(_)
LStrip(t) ==
    IF t = <<>> THEN <<>>
    ELSE IF IsSpace(Head(t).c) THEN LStrip(Tail(t))
    ELSE t

RECURSIVE RStrip(_)
RStrip(t) ==
    IF t = <<>> THEN <<>>
    ELSE IF IsSpace(t[Len(t)].c) THEN RStrip(SubSeq(t, 1, Len(t) - 1))
    ELSE t

\* text.strip()
Strip(t) == RStrip(LStrip(t))

RECURSIVE Join(_, _)
\* sep.join(parts)
Join(parts, sep) ==
    IF parts = <<>> THEN <<>>
    ELSE IF Len(parts) = 1 THEN parts[1]
    ELSE parts[1] \o sep \o Join(Tail(parts), sep)

RECURSIVE Rep(_, _)
\* k copies of the text t
Rep(t, k) == IF k <= 0 THEN <<>> ELSE t \o Rep(t, k - 1)

(***************************************************************************)
(* Exceptions (exceptions.py).  Every class derives from Exception, so an  *)
(* "except Exception" clause catches each of them.                         *)
(***************************************************************************)
ExceptionTypes ==
    {"Exception", "AttributeError", "TypeError", "KeyError", "ValueError",
     "APIError", "OutputParserException", "ValidationError",
     "PDFProcessingError", "AnalysisError"}

\* does "except Exception" catch an exception of class e
ExceptException(e) == e \in ExceptionTypes

(***************************************************************************)
(* Settings (config.py).                                                   *)
(***************************************************************************)
SettingsAttributes ==
    {"OPENAI_API_KEY", "openai_model", "max_pitch_length", "min_pitch_length",
     "max_file_size", "allowed_file_type", "cors_origins", "rate_limit",
     "log_level", "log_file"}

allowed_file_type == {"application/pdf"}

(***************************************************************************)
(* PDFProcessor.extract_text_from_pdf (pdf_util.py).                       *)
(* A page is the outcome of extract_text()/get_text() on it: it threw, or  *)
(* it returned text (None is the empty text).                              *)
(***************************************************************************)
PageTexts ==
    {EmptyText, SP, X(10), X(40), SP \o X(50) \o SP, X(100)}

PageOutcomes ==
    [threw : {FALSE}, text : PageTexts] \cup {[threw |-> TRUE, text |-> EmptyText]}

PageSeqs == UNION {[1..k -> PageOutcomes] : k \in 0..MaxPages}

\* "if page_text and page_text.strip()" with the per-page try/except
PageKept(p) == ~p.threw /\ p.text # <<>> /\ Strip(p.text) # <<>>

RECURSIVE text_parts(_)
\* the list text_parts after the page loop
text_parts(pages) ==
    IF pages = <<>> THEN <<>>
    ELSE IF PageKept(Head(pages)) THEN <<Head(pages).text>> \o text_parts(Tail(pages))
    ELSE text_parts(Tail(pages))

\* text = "\n".join(text_parts).strip()
StrategyText(pages) == Strip(Join(text_parts(pages), NL))

AcceptedAtLeast(text) == text # <<>> /\ TLen(text) >= ExtractThreshold

AcceptedNonEmpty(text) == text # <<>>

\* "if text and len(text) > 50"
Accepted(text) == text # <<>> /\ TLen(text) > ExtractThreshold

NoOutcome == [st |-> "none", exc |-> "none", text |-> EmptyText]

ExtInit == [attempts |-> <<>>, out |-> [i \in 1..3 |-> NoOutcome], pages |-> <<>>]

FallThroughAnalyze(i) == CASE i = 1 -> "s2" [] i = 2 -> "s3" [] OTHER -> "analyze"

FallThroughRetry(i) == CASE i = 1 -> "s1" [] i = 2 -> "s3" [] OTHER -> "error"

\* the pc after strategy i when it did not return: the next try block, or
\* the raise PDFProcessingError after the third one
FallThrough(i) == CASE i = 1 -> "s2" [] i = 2 -> "s3" [] OTHER -> "error"

(***************************************************************************)
(* InputValidator (validators.py).                                         *)
(***************************************************************************)
\* filename.lower() on the suffix of the name
Lower(suffix) ==
    CASE suffix = ".PDF" -> ".pdf"
      [] suffix = ".TXT" -> ".txt"
      [] OTHER -> suffix

\* the try body of validate_file: the exception it raises, or "none".
\* magic.from_buffer may fail; settings.allowed_file_types is read next.
SniffTry(file) ==
    IF file.mime = "sniff_error" THEN "Exception"
    ELSE IF "allowed_file_types" \notin SettingsAttributes THEN "AttributeError"
    ELSE IF file.mime \notin allowed_file_type THEN "ValidationError"
    ELSE "none"

\* validate_file(file_content, filename): "none" or the exception raised
validate_file(file) ==
    IF file.size = 0 THEN "ValidationError"
    ELSE IF file.size > max_file_size THEN "ValidationError"
    ELSE IF SniffTry(file) # "none" /\ ExceptException(SniffTry(file))
         THEN IF Lower(file.suffix) \notin {".pdf", ".txt"}
              THEN "ValidationError"
              ELSE "none"
    ELSE SniffTry(file)

RECURSIVE Explode(_)
\* the same text with every run of markup characters written out one by one
Explode(t) ==
    IF t = <<>> THEN <<>>
    ELSE IF Head(t).c \in {"<", ">", "&"}
         THEN Rep(<<Run(Head(t).c, 1)>>, Head(t).n) \o Explode(Tail(t))
         ELSE <<Head(t)>> \o Explode(Tail(t))

HasGt(t) == \E i \in 1..Len(t) : t[i].c = ">"

RECURSIVE AfterGt(_)
\* what follows the first ">" of t
AfterGt(t) ==
    IF t = <<>> THEN <<>>
    ELSE IF Head(t).c = ">" THEN Tail(t)
    ELSE AfterGt(Tail(t))

RECURSIVE Clean(_)
\* the HTML tokenizer and serializer behind bleach.clean(tags=[], strip=True):
\* "<" followed by a letter opens a tag that runs to the next ">" and is
\* dropped; a tag left open at the end of input is kept as text; text is
\* serialized with "<", ">" and "&" as entities
Clean(t) ==
    IF t = <<>> THEN <<>>
    ELSE LET h == Head(t)
             r == Tail(t)
         IN CASE h.c = "<" ->
                   IF r # <<>> /\ Head(r).c = "x" /\ HasGt(r)
                   THEN Clean(AfterGt(r))
                   ELSE <<Run("&", 1), Run("lt;", 1)>> \o Clean(r)
              [] h.c = ">" -> <<Run("&", 1), Run("gt;", 1)>> \o Clean(r)
              [] h.c = "&" -> <<Run("&", 1), Run("amp;", 1)>> \o Clean(r)
              [] OTHER -> <<h>> \o Clean(r)

BleachKeepTags(t) == t

\* bleach.clean(pitch, tags=[], strip=True)
bleach_clean(t) == Clean(Explode(t))

RECURSIVE escape(_)
\* html.escape(s)
escape(t) ==
    IF t = <<>> THEN <<>>
    ELSE LET h == Head(t)
         IN (CASE h.c = "&" -> Rep(<<Run("&", 1), Run("amp;", 1)>>, h.n)
               [] h.c = "<" -> Rep(<<Run("&", 1), Run("lt;", 1)>>, h.n)
               [] h.c = ">" -> Rep(<<Run("&", 1), Run("gt;", 1)>>, h.n)
               [] OTHER -> <<h>>) \o escape(Tail(t))

ValidateNoMinimum(pitch) ==
    IF pitch = <<>> \/ Strip(pitch) = <<>>
    THEN [exc |-> "ValidationError", text |-> EmptyText]
    ELSE IF TLen(Strip(pitch)) > max_pitch_length
    THEN [exc |-> "ValidationError", text |-> EmptyText]
    ELSE [exc |-> "none", text |-> escape(bleach_clean(Strip(pitch)))]

\* validate_pitch_content(pitch): the exception raised, or the sanitized text
validate_pitch_content(pitch) ==
    IF pitch = <<>> \/ Strip(pitch) = <<>>
    THEN [exc |-> "ValidationError", text |-> EmptyText]
    ELSE IF TLen(Strip(pitch)) < min_pitch_length
    THEN [exc |-> "ValidationError", text |-> EmptyText]
    ELSE IF TLen(Strip(pitch)) > max_pitch_length
    THEN [exc |-> "ValidationError", text |-> EmptyText]
    ELSE [exc |-> "none", text |-> escape(bleach_clean(Strip(pitch)))]

(***************************************************************************)
(* Requests.  One request is in flight: a POST /analyze_pitch, a POST      *)
(* /analyze_pdf, or a direct call of InputValidator.validate_pitch_content.*)
(***************************************************************************)
MarkupChars == {"x", " ", "<", ">", "&"}

MarkupSeqs == UNION {[1..k -> {Run(ch, 1) : ch \in MarkupChars}] : k \in 0..MaxMarkup}

LengthTexts ==
    {EmptyText, SP, X(89), X(90), SP \o X(89), SP \o X(90) \o SP,
     X(50000), X(50001), X(90000), X(90001), SP \o X(90000), SP \o X(90001),
     <<Run("<", 1)>> \o X(88) \o <<Run(">", 1)>>, X(89999) \o <<Run("&", 1)>>}

PitchInputs ==
    LengthTexts \cup {m \o X(90) : m \in MarkupSeqs} \cup {X(90) \o m : m \in MarkupSeqs}

FileInputs ==
    [size : {0, max_file_size, max_file_size + 1},
     mime : {"application/pdf", "image/png", "sniff_error"},
     suffix : {".PDF", ".png"},
     encrypted : BOOLEAN]

NoFile == [size |-> 0, mime |-> "none", suffix |-> "none", encrypted |-> FALSE]

\* no analysis failure; no message
NoFailure == [step |-> "none", exc |-> "none", detail |-> "none"]

NoMessage == [text |-> "none", cause |-> "none"]

Idle ==
    [kind |-> "idle", pc |-> "idle", file |-> NoFile, input |-> EmptyText,
     out |-> EmptyText, err |-> "none", llm |-> 0,
     failure |-> NoFailure, msg |-> NoMessage, response |-> {}, record |-> {},
     status |-> 0, body |-> "none", counts |-> [success |-> 0, error |-> 0]]

IncNone(counts, status) == counts

\* ANALYSIS_COUNT.labels(type=..., status=status).inc(), as the increments
\* made on behalf of the request in flight
inc(counts, status) == [counts EXCEPT ![status] = @ + 1]

\* PitchRequest: pitch: str = Field(..., min_length=1, max_length=50000)
PitchRequest(pitch) ==
    TLen(pitch) >= PitchRequestMinLength /\ TLen(pitch) <= PitchRequestMaxLength

(***************************************************************************)
(* Analysis (pitch_analyzer.py, schema.py).  An LLM response is the set of *)
(* PitchFeedback fields it supplies; a feedback record is the set of       *)
(* fields it carries.                                                      *)
(***************************************************************************)
Sections ==
    {"problem", "solution", "market_size", "business_model",
     "go_to_market_strategy", "traction", "team", "competitive_advantage",
     "vision"}

\* the fields of PitchFeedback declared without a default
RequiredFields ==
    Sections \cup {"analysis_id", "scores", "investor_questions", "overall_impression"}

\* answers of the LLM: complete, or lacking one section
LLMResponses == {RequiredFields} \cup {RequiredFields \ {f} : f \in Sections}

\* exception messages of the provider and of the libraries
Details == {"rate limit exceeded for org-1", "invalid api key sk-1"}

\* the steps inside the try block of analyze_pitch and what each can raise
StepFailures ==
    {[step |-> "content_stats", exc |-> "AttributeError", detail |-> "no attribute split"],
     [step |-> "prompt", exc |-> "KeyError", detail |-> "missing variable"],
     [step |-> "metadata", exc |-> "ValueError", detail |-> "no field"]}
      \cup {[step |-> "llm", exc |-> "APIError", detail |-> d] : d \in Details}

\* PydanticOutputParser(pydantic_object=PitchFeedback): the answer parses
\* when every required field is present
ParseLenient(response) == NoFailure

PydanticOutputParser(response) ==
    IF RequiredFields \subseteq response THEN NoFailure
    ELSE [step |-> "parse", exc |-> "OutputParserException",
          detail |-> "Failed to parse PitchFeedback"]

\* the first step of the try block that raises
FirstFailure(failure, response) ==
    IF failure.step \in {"content_stats", "prompt", "llm"} THEN failure
    ELSE IF PydanticOutputParser(response).step # "none"
    THEN PydanticOutputParser(response)
    ELSE failure

ReraiseAsIs(e) ==
    [exc |-> e.exc, failure |-> e, msg |-> [text |-> "none", cause |-> e.detail],
     record |-> {}]

\* except Exception as e: raise AnalysisError(f"AI analysis failed: {str(e)}")
RaiseAnalysisError(e) ==
    IF ExceptException(e.exc)
    THEN [exc |-> "AnalysisError", failure |-> e,
          msg |-> [text |-> "AI analysis failed: ", cause |-> e.detail],
          record |-> {}]
    ELSE [exc |-> e.exc, failure |-> e, msg |-> NoMessage, record |-> {}]

\* analyze_pitch(pitch_content): the exception raised, or the record
\* returned, which is the parsed answer with the metadata attached
analyze_pitch(failure, response) ==
    LET e == FirstFailure(failure, response)
    IN IF e.step # "none"
       THEN RaiseAnalysisError(e)
       ELSE [exc |-> "none", failure |-> NoFailure, msg |-> NoMessage,
             record |-> response \cup {"processing_time", "content_statistics"}]

(***************************************************************************)
(* Responses (main.py).                                                    *)
(***************************************************************************)
\* a str value and a datetime value of a response body
Str(s) == [type |-> "str", v |-> s]

Datetime == [type |-> "datetime", v |-> "utcnow"]

\* ErrorResponse(error_type=..., message=...).dict(): timestamp is filled
\* by default_factory=datetime.utcnow and stays a datetime object
ErrorResponse(error_type, message) ==
    [status |-> Str("error"), error_type |-> Str(error_type),
     message |-> Str(message), timestamp |-> Datetime]

\* json.dumps(content) accepts str values; it raises TypeError on a datetime
JsonSerializable(content) == \A f \in DOMAIN content : content[f].type = "str"

\* JSONResponse(status_code=..., content=...) renders the body when it is
\* constructed
JSONResponse(status_code, content) ==
    IF JsonSerializable(content)
    THEN [exc |-> "none", status |-> status_code, body |-> content.message.v]
    ELSE [exc |-> "TypeError", status |-> 0, body |-> "none"]

\* general_exception_handler(request, exc)
general_exception_handler ==
    JSONResponse(500, ErrorResponse("InternalServerError",
                     "An unexpected error occurred. Please try again later."))

\* an exception that leaves an exception handler reaches the server error
\* middleware, which calls the handler registered for Exception; when that
\* one raises as well the server answers with its plain 500 page
ServerErrorMiddleware(r) ==
    IF r.exc = "none" THEN r
    ELSE IF general_exception_handler.exc = "none" THEN general_exception_handler
    ELSE [exc |-> "none", status |-> 500, body |-> "Internal Server Error"]

UnexpectedDetailLeak(e) == e

\* raise HTTPException(status_code=500, detail="Analysis service temporarily unavailable")
UnexpectedDetail(e) == "Analysis service temporarily unavailable"

\* POST /analyze_pitch arrives; the body is parsed into a PitchRequest
\* before analyze_pitch_text runs, and a body that does not fit is answered
\* by the framework with status 422
PostAnalyzePitch ==
    /\ req.kind = "idle"
    /\ \E pitch \in PitchInputs :
         req' = IF PitchRequest(pitch)
                THEN [Idle EXCEPT !.kind = "text", !.input = pitch,
                                  !.pc = "validate_pitch"]
                ELSE [Idle EXCEPT !.kind = "text", !.input = pitch,
                                  !.pc = "rejected",
                                  !.status = 422,
                                  !.body = "request validation error"]
    /\ UNCHANGED <<ext, db, coll, clock, nextId, ret, calls>>

\* the validate_pitch_content call of an endpoint, and its except clause
ValidatePitchStep ==
    LET r == validate_pitch_content(req.input)
    IN IF r.exc = "none"
       THEN req' = [req EXCEPT !.out = r.text, !.pc = "analyze"]
       ELSE req' = [req EXCEPT !.err = r.exc, !.pc = "error",
                               !.counts = inc(@, "error")]

\* result = await pitch_analyzer.analyze_pitch(validated), the success
\* count, then the AnalysisResponse is built from the record and returned
EndpointAnalyze(failure, response) ==
    LET r == analyze_pitch(failure, response)
    IN IF r.exc # "none"
       THEN req' = [req EXCEPT !.llm = @ + 1, !.pc = "error", !.err = r.exc,
                               !.failure = r.failure, !.msg = r.msg,
                               !.response = response,
                               !.counts = inc(@, "error")]
       ELSE req' = [req EXCEPT !.llm = @ + 1, !.pc = "done", !.err = "none",
                               !.response = response, !.record = r.record,
                               !.status = 200, !.body = "analysis",
                               !.counts = inc(@, "success")]

\* the failures that end a call before the LLM has answered leave no
\* response; after an answer only the metadata step can still fail
AnalyzeStep ==
    \/ \E failure \in {f \in StepFailures : f.step \in {"content_stats", "prompt", "llm"}} :
          EndpointAnalyze(failure, {})
    \/ \E response \in LLMResponses :
          \/ EndpointAnalyze(NoFailure, response)
          \/ /\ RequiredFields \subseteq response
             /\ \E failure \in {f \in StepFailures : f.step = "metadata"} :
                   EndpointAnalyze(failure, response)

\* analyze_pitch_text: validated_pitch = validate_pitch_content(data.pitch)
TextValidatePitch ==
    /\ req.kind = "text" /\ req.pc = "validate_pitch"
    /\ ValidatePitchStep
    /\ UNCHANGED <<ext, db, coll, clock, nextId, ret, calls>>

\* analyze_pitch_text: result = await pitch_analyzer.analyze_pitch(...)
TextAnalyze ==
    /\ req.kind = "text" /\ req.pc = "analyze"
    /\ AnalyzeStep
    /\ UNCHANGED <<ext, db, coll, clock, nextId, ret, calls>>

\* a caller other than the endpoints invokes validate_pitch_content
ValidatorCall ==
    /\ req.kind = "idle"
    /\ \E pitch \in PitchInputs :
         LET r == validate_pitch_content(pitch)
         IN req' = [Idle EXCEPT !.kind = "call", !.input = pitch, !.out = r.text,
                                !.err = r.exc,
                                !.pc = IF r.exc = "none" THEN "done" ELSE "error"]
    /\ UNCHANGED <<ext, db, coll, clock, nextId, ret, calls>>

\* POST /analyze_pdf arrives with an uploaded file
PostAnalyzePdf ==
    /\ req.kind = "idle"
    /\ \E file \in FileInputs :
         req' = [Idle EXCEPT !.kind = "pdf", !.file = file, !.pc = "validate_file"]
    /\ ext' = ExtInit
    /\ UNCHANGED <<db, coll, clock, nextId, ret, calls>>

\* analyze_pitch_pdf: file_content = await file.read(), where an exception
\* of the upload is turned into HTTPException by the last except clause,
\* then InputValidator.validate_file(file_content, filename)
PdfValidateFile ==
    /\ req.kind = "pdf" /\ req.pc = "validate_file"
    /\ \/ \E unexpected \in Details :
             req' = [req EXCEPT !.pc = "error", !.err = "HTTPException",
                                !.failure = [step |-> "endpoint", exc |-> "Exception",
                                             detail |-> unexpected],
                                !.msg = [text |-> UnexpectedDetail(unexpected),
                                         cause |-> "none"],
                                !.counts = inc(@, "error")]
       \/ LET e == validate_file(req.file)
          IN req' = IF e = "none" THEN [req EXCEPT !.pc = "s1"]
                    ELSE [req EXCEPT !.err = e, !.pc = "error",
                                     !.counts = inc(@, "error")]
    /\ UNCHANGED <<ext, db, coll, clock, nextId, ret, calls>>

\* one try block of extract_text_from_pdf: strategy i raised exc in its body
\* (exc = "none": it read the pages) and the except clause that follows it
Strategy(i, exc, pages) ==
    LET text == StrategyText(pages)
        outcome == IF exc # "none"
                   THEN [st |-> "raised", exc |-> exc, text |-> EmptyText]
                   ELSE [st |-> "text", exc |-> "none", text |-> text]
    IN /\ ext' = [attempts |-> Append(ext.attempts, i),
                  out |-> [ext.out EXCEPT ![i] = outcome],
                  pages |-> pages]
       /\ IF exc # "none"
          THEN IF ExceptException(exc)
               THEN req' = [req EXCEPT !.pc = FallThrough(i),
                                       !.err = IF i = 3 THEN "PDFProcessingError"
                                               ELSE "none",
                                       !.counts = IF FallThrough(i) = "error"
                                                  THEN inc(@, "error") ELSE @]
               ELSE req' = [req EXCEPT !.pc = "error", !.err = exc]
          ELSE IF Accepted(text)
               THEN req' = [req EXCEPT !.pc = "validate_pitch", !.input = text]
               ELSE req' = [req EXCEPT !.pc = FallThrough(i),
                                       !.err = IF i = 3 THEN "PDFProcessingError"
                                               ELSE "none",
                                       !.counts = IF FallThrough(i) = "error"
                                                  THEN inc(@, "error") ELSE @]

\* method 1: PyPDF2; an encrypted file raises PDFProcessingError in the try
Strategy1 ==
    /\ req.kind = "pdf" /\ req.pc = "s1"
    /\ IF req.file.encrypted
       THEN Strategy(1, "PDFProcessingError", <<>>)
       ELSE \/ Strategy(1, "Exception", <<>>)
            \/ \E pages \in PageSeqs : Strategy(1, "none", pages)
    /\ UNCHANGED <<db, coll, clock, nextId, ret, calls>>

\* method 2: PyMuPDF
Strategy2 ==
    /\ req.kind = "pdf" /\ req.pc = "s2"
    /\ \/ Strategy(2, "Exception", <<>>)
       \/ \E pages \in PageSeqs : Strategy(2, "none", pages)
    /\ UNCHANGED <<db, coll, clock, nextId, ret, calls>>

\* method 3: pdfplumber, then the final raise PDFProcessingError
Strategy3 ==
    /\ req.kind = "pdf" /\ req.pc = "s3"
    /\ \/ Strategy(3, "Exception", <<>>)
       \/ \E pages \in PageSeqs : Strategy(3, "none", pages)
    /\ UNCHANGED <<db, coll, clock, nextId, ret, calls>>

\* analyze_pitch_pdf: validated_text = validate_pitch_content(extracted_text)
PdfValidatePitch ==
    /\ req.kind = "pdf" /\ req.pc = "validate_pitch"
    /\ ValidatePitchStep
    /\ UNCHANGED <<ext, db, coll, clock, nextId, ret, calls>>

\* analyze_pitch_pdf: result = await pitch_analyzer.analyze_pitch(...)
PdfAnalyze ==
    /\ req.kind = "pdf" /\ req.pc = "analyze"
    /\ AnalyzeStep
    /\ UNCHANGED <<ext, db, coll, clock, nextId, ret, calls>>

\* ValidationError raised by an endpoint
validation_exception_handler ==
    /\ req.kind \in {"text", "pdf"} /\ req.pc = "error" /\ req.status = 0
    /\ req.err = "ValidationError"
    /\ LET r == ServerErrorMiddleware(
                    JSONResponse(400, ErrorResponse("ValidationError", "str(exc)")))
       IN req' = [req EXCEPT !.status = r.status, !.body = r.body]
    /\ UNCHANGED <<ext, db, coll, clock, nextId, ret, calls>>

\* PDFProcessingError raised by an endpoint
pdf_processing_exception_handler ==
    /\ req.kind \in {"text", "pdf"} /\ req.pc = "error" /\ req.status = 0
    /\ req.err = "PDFProcessingError"
    /\ LET r == ServerErrorMiddleware(
                    JSONResponse(422, ErrorResponse("PDFProcessingError", "str(exc)")))
       IN req' = [req EXCEPT !.status = r.status, !.body = r.body]
    /\ UNCHANGED <<ext, db, coll, clock, nextId, ret, calls>>

\* AnalysisError raised by an endpoint
analysis_exception_handler ==
    /\ req.kind \in {"text", "pdf"} /\ req.pc = "error" /\ req.status = 0
    /\ req.err = "AnalysisError"
    /\ LET r == ServerErrorMiddleware(
                    JSONResponse(500, ErrorResponse("AnalysisError",
                        "Analysis service temporarily unavailable. Please try again later.")))
       IN req' = [req EXCEPT !.status = r.status, !.body = r.body]
    /\ UNCHANGED <<ext, db, coll, clock, nextId, ret, calls>>

\* HTTPException raised by an endpoint: the framework answers with its
\* status code and {"detail": detail}
http_exception_handler ==
    /\ req.kind \in {"text", "pdf"} /\ req.pc = "error" /\ req.status = 0
    /\ req.err = "HTTPException"
    /\ req' = [req EXCEPT !.status = 500, !.body = req.msg.text]
    /\ UNCHANGED <<ext, db, coll, clock, nextId, ret, calls>>

\* the response is sent (or the call returns); the next request may start
Respond ==
    /\ \/ req.pc \in {"done", "rejected"}
       \/ req.pc = "error" /\ (req.kind = "call" \/ req.status # 0)
    /\ req' = Idle
    /\ ext' = ExtInit
    /\ UNCHANGED <<db, coll, clock, nextId, ret, calls>>

(***************************************************************************)
(* Investor catalog (investor_service.py, database.py).                    *)
(* The collection is the sequence of stored documents in insertion order;  *)
(* a document maps field names to values, "None" standing for an absent    *)
(* or null field.                                                          *)
(***************************************************************************)
\* an identifier string: its length, whether it is all hex digits, and the
\* ObjectId it denotes when it is valid
IdString(len, hex, k) == [len |-> len, hex |-> hex, n |-> k]

IdInputs ==
    {IdString(24, TRUE, k) : k \in 1..MaxRecords}
      \cup {IdString(23, TRUE, 1),
            IdString(24, FALSE, 1)}

\* ObjectId.is_valid(investor_id) for a str: 24 hex digits
is_valid(id) == id.len = 24 /\ id.hex

\* ObjectId(investor_id)
ObjectId(id) == id.n

UpdateKeys == {"Investor_name", "Website"}

\* update payloads: any subset of the keys, each null or a value
UpdateInputs == UNION {[K -> {"None", "x"}] : K \in SUBSET UpdateKeys}

\* update payloads that also name the identifier field: the identifier of
\* the first record, or one that no record has
IdUpdateInputs ==
    {[k \in {"_id", "Website"} |-> IF k = "_id" THEN v ELSE "x"] :
        v \in {1, MaxRecords + 1}}

\* create payloads; the second one lacks the required Investor_name
CreateInputs ==
    {[Investor_name |-> "a", Investor_type |-> "VC", Global_HQ |-> "None",
      Stage_of_investment |-> "None", Website |-> "None"],
     [Investor_name |-> "None", Investor_type |-> "VC", Global_HQ |-> "None",
      Stage_of_investment |-> "None", Website |-> "w"]}

\* lists of records handed to bulk_create_investors
Batches == UNION {[1..k -> CreateInputs] : k \in 0..MaxBatch}

\* InvestorFilters: each filter absent or a pattern
FilterInputs ==
    [search : {"None", "a", "vc"}, type : {"None", "vc"},
     location : {"None", "u"}, investment_stage : {"None", "seed"}]

NoFilters ==
    [search |-> "None", type |-> "None", location |-> "None",
     investment_stage |-> "None"]

\* get_collection(): db[self.collection_name] raises TypeError when
\* database.db is still None
get_collection(d) == IF d = "none" THEN "TypeError" ELSE "none"

\* index of the document with this _id, 0 when there is none
Find(c, oid) ==
    IF \E i \in 1..Len(c) : c[i]["_id"] = oid
    THEN CHOOSE i \in 1..Len(c) : c[i]["_id"] = oid
    ELSE 0

NoList ==
    [total_count |-> 0, total_pages |-> 0, page |-> 0, page_size |-> 0,
     skip |-> 0, has_next |-> FALSE, has_prev |-> FALSE, investors |-> <<>>]

\* the outcome of the last call: backend is the exception the database
\* driver raised during it, matched whether the filter of an update found
\* a record, given and count the sizes of a bulk insert
NoRet ==
    [op |-> "none", valid |-> FALSE, result |-> "none", exc |-> "none",
     wrote |-> FALSE, list |-> NoList, backend |-> "none", matched |-> FALSE,
     given |-> 0, count |-> 0, filters |-> NoFilters]

\* an operation ended by raising exc to its caller
Raised(op, valid, exc, wrote) ==
    [NoRet EXCEPT !.op = op, !.valid = valid, !.result = "raise", !.exc = exc,
                  !.wrote = wrote]

\* an operation returned result
Returned(op, valid, result, wrote) ==
    [NoRet EXCEPT !.op = op, !.valid = valid, !.result = result, !.wrote = wrote]

\* connect_to_mongo at startup: database.db is set, or the startup fails
\* and database.db stays None
connect_to_mongo ==
    /\ db = "none"
    /\ db' \in {"connected", "none"}
    /\ UNCHANGED <<req, ext, coll, clock, nextId, ret, calls>>

\* datetime.utcnow() advances
Tick ==
    /\ clock < MaxClock
    /\ clock' = clock + 1
    /\ UNCHANGED <<req, ext, db, coll, nextId, ret, calls>>

\* InvestorInDB(**investor_data) and model_dump: the stored document
InvestorInDB(data, oid, now) ==
    [f \in {"_id", "Investor_name", "Investor_type", "Global_HQ",
            "Stage_of_investment", "Website", "created_at", "updated_at"} |->
        CASE f = "_id" -> oid
          [] f \in {"created_at", "updated_at"} -> now
          [] OTHER -> data[f]]

\* create_investor(investor_data)
create_investor ==
    /\ nextId <= MaxRecords
    /\ \E data \in CreateInputs, fail \in BOOLEAN :
         IF get_collection(db) # "none"
         THEN /\ ret' = Raised("create", TRUE, get_collection(db), FALSE)
              /\ UNCHANGED <<coll, nextId>>
         ELSE IF data["Investor_name"] = "None"
         THEN /\ ret' = Raised("create", TRUE, "ValidationError", FALSE)
              /\ UNCHANGED <<coll, nextId>>
         ELSE IF fail
         THEN /\ ret' = [Raised("create", TRUE, "Exception", TRUE) EXCEPT
                            !.backend = "Exception"]
              /\ UNCHANGED <<coll, nextId>>
         ELSE /\ coll' = Append(coll, InvestorInDB(data, nextId, clock))
              /\ nextId' = nextId + 1
              /\ ret' = Returned("create", TRUE, "id", TRUE)
    /\ UNCHANGED <<req, ext, db, clock, calls>>

RECURSIVE ValidDocs(_, _, _)
\* the loop of bulk_create_investors: the documents of the records that
\* InvestorInDB accepts, in the order given; the others are skipped
ValidDocs(batch, oid, now) ==
    IF batch = <<>> THEN <<>>
    ELSE IF Head(batch)["Investor_name"] = "None"
    THEN ValidDocs(Tail(batch), oid, now)
    ELSE <<InvestorInDB(Head(batch), oid, now)>>
           \o ValidDocs(Tail(batch), oid + 1, now)

GivenCount(batch, investors) == Len(batch)

\* len(result.inserted_ids) of insert_many(investors)
InsertedCount(batch, investors) == Len(investors)

\* bulk_create_investors(investors_data); a failing insert_many, which is
\* ordered, has stored the documents before the one it failed on
BulkCreateInvestors(batch, fail) ==
    LET investors == ValidDocs(batch, nextId, clock)
    IN /\ nextId + Len(investors) <= MaxRecords + 1
       /\ IF get_collection(db) # "none"
          THEN /\ ret' = [Raised("bulk", TRUE, get_collection(db), FALSE) EXCEPT
                             !.given = Len(batch)]
               /\ UNCHANGED <<coll, nextId>>
          ELSE IF investors = <<>>
          THEN /\ ret' = [Returned("bulk", TRUE, "count", FALSE) EXCEPT
                             !.given = Len(batch), !.count = 0]
               /\ UNCHANGED <<coll, nextId>>
          ELSE IF fail
          THEN \E n \in 0..(Len(investors) - 1) :
                  /\ coll' = coll \o SubSeq(investors, 1, n)
                  /\ nextId' = nextId + n
                  /\ ret' = [Raised("bulk", TRUE, "BulkWriteError", TRUE) EXCEPT
                                !.given = Len(batch), !.backend = "BulkWriteError"]
          ELSE /\ coll' = coll \o investors
               /\ nextId' = nextId + Len(investors)
               /\ ret' = [Returned("bulk", TRUE, "count", TRUE) EXCEPT
                             !.given = Len(batch),
                             !.count = InsertedCount(batch, investors)]
       /\ UNCHANGED <<req, ext, db, clock, calls>>

bulk_create_investors ==
    \E batch \in Batches, fail \in BOOLEAN : BulkCreateInvestors(batch, fail)

SetDataKeepNone(data, now) ==
    [k \in DOMAIN data \cup {"updated_at"} |->
        IF k = "updated_at" THEN now ELSE data[k]]

\* update_data["updated_at"] = utcnow(); then the None values are dropped
SetData(data, now) ==
    LET stamped == [k \in DOMAIN data \cup {"updated_at"} |->
                       IF k = "updated_at" THEN now ELSE data[k]]
        keep == {k \in DOMAIN stamped :
                    k \in {"updated_at", "_id"} \/ stamped[k] # "None"}
    IN [k \in keep |-> stamped[k]]

\* the document after {"$set": update_data}
ApplySet(doc, set) ==
    [f \in DOMAIN doc |-> IF f \in DOMAIN set THEN set[f] ELSE doc[f]]

ImmutableFieldIgnored(doc, set) == FALSE

\* the server refuses a $set that would give _id another value
ImmutableField(doc, set) == "_id" \in DOMAIN set /\ set["_id"] # doc["_id"]

matched_count(old, new) == 1

\* result.modified_count of update_one: the matched document was changed
modified_count(old, new) == IF new # old THEN 1 ELSE 0

\* update_investor(investor_id, update_data)
UpdateInvestor(id, data, fail) ==
    /\ IF get_collection(db) # "none"
       THEN /\ ret' = Raised("update", is_valid(id), get_collection(db), FALSE)
            /\ UNCHANGED coll
       ELSE IF ~is_valid(id)
       THEN /\ ret' = Returned("update", FALSE, "False", FALSE)
            /\ UNCHANGED coll
       ELSE IF fail
       THEN /\ ret' = [Returned("update", TRUE, "False", TRUE) EXCEPT
                          !.backend = "Exception"]
            /\ UNCHANGED coll
       ELSE LET i == Find(coll, ObjectId(id))
                set == SetData(data, clock)
                new == ApplySet(coll[i], set)
            IN IF i = 0
               THEN /\ ret' = Returned("update", TRUE, "False", TRUE)
                    /\ UNCHANGED coll
               ELSE IF ImmutableField(coll[i], set)
               THEN /\ ret' = [Returned("update", TRUE, "False", TRUE) EXCEPT
                                  !.backend = "WriteError", !.matched = TRUE]
                    /\ UNCHANGED coll
               ELSE /\ coll' = [coll EXCEPT ![i] = new]
                    /\ ret' = [Returned("update", TRUE,
                                        IF modified_count(coll[i], new) > 0
                                        THEN "True" ELSE "False",
                                        TRUE) EXCEPT !.matched = TRUE]
    /\ UNCHANGED <<req, ext, db, clock, nextId, calls>>

update_investor ==
    \/ \E id \in IdInputs, data \in UpdateInputs, fail \in BOOLEAN :
          UpdateInvestor(id, data, fail)
    \/ \E id \in IdInputs, data \in IdUpdateInputs :
          UpdateInvestor(id, data, FALSE)

\* delete_investor(investor_id)
delete_investor ==
    /\ \E id \in IdInputs, fail \in BOOLEAN :
         IF get_collection(db) # "none"
         THEN /\ ret' = Raised("delete", is_valid(id), get_collection(db), FALSE)
              /\ UNCHANGED coll
         ELSE IF ~is_valid(id)
         THEN /\ ret' = Returned("delete", FALSE, "False", FALSE)
              /\ UNCHANGED coll
         ELSE IF fail
         THEN /\ ret' = [Returned("delete", TRUE, "False", TRUE) EXCEPT
                            !.backend = "Exception"]
              /\ UNCHANGED coll
         ELSE LET i == Find(coll, ObjectId(id))
              IN IF i = 0
                 THEN /\ ret' = Returned("delete", TRUE, "False", TRUE)
                      /\ UNCHANGED coll
                 ELSE /\ coll' = SubSeq(coll, 1, i - 1) \o SubSeq(coll, i + 1, Len(coll))
                      /\ ret' = Returned("delete", TRUE, "True", TRUE)
    /\ UNCHANGED <<req, ext, db, clock, nextId, calls>>

\* get_investor_by_id(investor_id)
get_investor_by_id ==
    /\ \E id \in IdInputs, fail \in BOOLEAN :
         IF get_collection(db) # "none"
         THEN ret' = Raised("get", is_valid(id), get_collection(db), FALSE)
         ELSE IF ~is_valid(id)
         THEN ret' = Returned("get", FALSE, "None", FALSE)
         ELSE IF fail
         THEN ret' = [Returned("get", TRUE, "None", FALSE) EXCEPT
                         !.backend = "Exception"]
         ELSE IF Find(coll, ObjectId(id)) = 0
         THEN ret' = Returned("get", TRUE, "None", FALSE)
         ELSE ret' = Returned("get", TRUE, "record", FALSE)
    /\ UNCHANGED <<req, ext, db, coll, clock, nextId, calls>>

\* the characters of the stored values and of the patterns
Letters(v) ==
    CASE v = "a" -> <<"a">>
      [] v = "b" -> <<"b">>
      [] v = "x" -> <<"x">>
      [] v = "w" -> <<"w">>
      [] v = "u" -> <<"u">>
      [] v = "vc" -> <<"v", "c">>
      [] v = "VC" -> <<"V", "C">>
      [] v = "US" -> <<"U", "S">>
      [] v = "Angel" -> <<"A", "n", "g", "e", "l">>
      [] v = "Seed" -> <<"S", "e", "e", "d">>
      [] v = "seed" -> <<"s", "e", "e", "d">>
      [] OTHER -> <<>>

\* re.IGNORECASE
LowerCase(ch) ==
    CASE ch = "A" -> "a"
      [] ch = "C" -> "c"
      [] ch = "S" -> "s"
      [] ch = "U" -> "u"
      [] ch = "V" -> "v"
      [] OTHER -> ch

\* {field: re.compile(pattern, re.IGNORECASE)}: the pattern occurs in the
\* stored string; a null or missing field matches no pattern
RegexMatch(pattern, value) ==
    /\ value # "None"
    /\ LET p == Letters(pattern)
           t == Letters(value)
       IN \E off \in 0..(Len(t) - Len(p)) :
             \A j \in 1..Len(p) : LowerCase(t[off + j]) = LowerCase(p[j])

SearchFields == {"Investor_name", "Investor_type", "Global_HQ", "Stage_of_investment"}

SearchAll(doc, pattern) == \A f \in SearchFields : RegexMatch(pattern, doc[f])

\* query["$or"] = [{field: search_regex} for the four fields]
SearchAny(doc, pattern) == \E f \in SearchFields : RegexMatch(pattern, doc[f])

\* the query built from the filters; its top-level keys are all required
QueryMatches(doc, filters) ==
    /\ filters.search # "None" => SearchAny(doc, filters.search)
    /\ filters.type # "None" => RegexMatch(filters.type, doc["Investor_type"])
    /\ filters.location # "None" => RegexMatch(filters.location, doc["Global_HQ"])
    /\ filters.investment_stage # "None" =>
          RegexMatch(filters.investment_stage, doc["Stage_of_investment"])

\* the documents of the collection that the query selects
FindQuery(c, filters) == SelectSeq(c, LAMBDA doc : QueryMatches(doc, filters))

\* order of the values of the sort field
Rank(v) == CASE v = "a" -> 1 [] v = "b" -> 2 [] v = "x" -> 3 [] OTHER -> 0

\* does document d come before document e under .sort(sort_by, sort_order)
Before(d, e, sort_by, sort_order) ==
    IF sort_order = 1 THEN Rank(d[sort_by]) < Rank(e[sort_by])
    ELSE Rank(d[sort_by]) > Rank(e[sort_by])

RECURSIVE Insert(_, _, _, _)
Insert(d, sorted, sort_by, sort_order) ==
    IF sorted = <<>> THEN <<d>>
    ELSE IF Before(d, Head(sorted), sort_by, sort_order) THEN <<d>> \o sorted
    ELSE <<Head(sorted)>> \o Insert(d, Tail(sorted), sort_by, sort_order)

RECURSIVE Sort(_, _, _)
\* collection.find(query).sort(sort_by, sort_order)
Sort(docs, sort_by, sort_order) ==
    IF docs = <<>> THEN <<>>
    ELSE Insert(docs[Len(docs)], Sort(SubSeq(docs, 1, Len(docs) - 1), sort_by, sort_order),
                sort_by, sort_order)

Floor(total_count, page_size) == total_count \div page_size

\* math.ceil(total_count / page_size)
Ceil(total_count, page_size) == (total_count + page_size - 1) \div page_size

\* total_pages = math.ceil(total_count / page_size) if page_size > 0 else 1
TotalPages(total_count, page_size) ==
    IF page_size > 0 THEN Ceil(total_count, page_size) ELSE 1

\* skip = (page - 1) * page_size
Skip(page, page_size) == (page - 1) * page_size

\* cursor.skip(skip).limit(page_size), to_list(length=page_size)
PageSlice(docs, skip, page_size) ==
    SubSeq(docs, skip + 1, IF skip + page_size < Len(docs) THEN skip + page_size
                           ELSE Len(docs))

\* the InvestorListResponse of get_investors(page, page_size)
InvestorListResponse(c, page, page_size, sort_order) ==
    LET total_count == Len(c)
        total_pages == TotalPages(total_count, page_size)
        skip == Skip(page, page_size)
        documents == PageSlice(Sort(c, "Investor_name", sort_order), skip, page_size)
    IN [total_count |-> total_count,
        total_pages |-> total_pages,
        page |-> page,
        page_size |-> page_size,
        skip |-> skip,
        has_next |-> page < total_pages,
        has_prev |-> page > 1,
        investors |-> [k \in 1..Len(documents) |-> documents[k]["_id"]]]

\* page sizes of the requests: the small ones and the documented 20
PageSizes == (1..MaxPageSize) \cup {20}

\* get_investors(page, page_size, filters, sort_order=...); GET /investors admits
\* page >= 1 and page_size >= 1
GetInvestors(filter_inputs) ==
    /\ IF get_collection(db) # "none"
       THEN ret' = Raised("list", TRUE, get_collection(db), FALSE)
       ELSE \/ ret' = [Raised("list", TRUE, "Exception", FALSE) EXCEPT
                         !.backend = "Exception"]
            \/ \E page \in 1..MaxPage, page_size \in PageSizes, sort_order \in {1, -1},
                  filters \in filter_inputs :
                  ret' = [Returned("list", TRUE, "ok", FALSE) EXCEPT
                            !.list = InvestorListResponse(FindQuery(coll, filters),
                                                          page, page_size, sort_order),
                            !.filters = filters]
    /\ UNCHANGED <<req, ext, db, coll, clock, nextId, calls>>

\* get_investors called without filters (filters=None, or no filter set)
get_investors == GetInvestors({NoFilters})

\* get_investors called with the filters of GET /investors
get_investors_filtered == GetInvestors(FilterInputs)

(***************************************************************************)
(* Concurrent calls of pitch_analyzer.analyze_pitch (pitch_analyzer.py).   *)
(* The one PitchAnalyzer instance is shared by all requests; its prompt,   *)
(* llm and parser attributes are set in __init__ and only read afterwards. *)
(* A call keeps pitch_content, analysis_id, content_stats and result in    *)
(* its own frame and suspends at "await chain.ainvoke", where the event    *)
(* loop may run any other call.                                            *)
(***************************************************************************)
\* the calls that may be in flight together
Calls == 1..MaxCalls

\* validated pitch texts handed to analyze_pitch
CallTexts == {X(90), X(45) \o SP \o X(45), X(100) \o NL \o X(20) \o SP \o X(5)}

\* the values uuid.uuid4() may give; two calls may draw the same one
Uuids == {"uuid-1", "uuid-2", "uuid-3"}

RECURSIVE Words(_, _)
\* len(content.split()): the maximal runs of characters that are not white
\* space; inWord tells whether the previous character belonged to a word
Words(t, inWord) ==
    IF t = <<>> THEN 0
    ELSE IF IsSpace(Head(t).c) THEN Words(Tail(t), FALSE)
    ELSE (IF inWord THEN 0 ELSE 1) + Words(Tail(t), TRUE)

\* _calculate_content_stats(content): the word and character counts (the
\* other entries are functions of the same text)
_calculate_content_stats(content) ==
    [word_count |-> Words(content, FALSE), character_count |-> TLen(content)]

NoStats == [word_count |-> 0, character_count |-> 0]

NoResult == [fields |-> {}, analysis_id |-> "none", content_statistics |-> NoStats]

\* the frame of a call that has not started
NoFrame ==
    [pc |-> "idle", pitch_content |-> EmptyText, analysis_id |-> "none",
     content_stats |-> NoStats, result |-> NoResult, exc |-> "none"]

FrameOfFirst(c) == calls[1]

\* the local variables a call reads when it resumes
Frame(c) == calls[c]

\* analyze_pitch up to the suspension: analysis_id = str(uuid.uuid4()),
\* content_stats = self._calculate_content_stats(pitch_content), the chain
\* is built and awaited; a failure before the await raises AnalysisError
CallAnalyzePitch(c) ==
    /\ calls[c].pc = "idle"
    /\ \E pitch_content \in CallTexts, analysis_id \in Uuids :
         \/ calls' = [calls EXCEPT ![c] =
                        [NoFrame EXCEPT !.pc = "awaiting",
                                        !.pitch_content = pitch_content,
                                        !.analysis_id = analysis_id,
                                        !.content_stats =
                                            _calculate_content_stats(pitch_content)]]
         \/ \E failure \in {f \in StepFailures : f.step \in {"content_stats", "prompt"}} :
               calls' = [calls EXCEPT ![c] =
                           [NoFrame EXCEPT !.pc = "raised",
                                           !.pitch_content = pitch_content,
                                           !.analysis_id = analysis_id,
                                           !.exc = analyze_pitch(failure, {}).exc]]
    /\ UNCHANGED <<req, ext, db, coll, clock, nextId, ret>>

\* the awaited chain of call c completes: the parsed answer gets the
\* analysis_id and content_stats of the resuming frame and is returned as
\* a dict, or the failure of the chain is raised as AnalysisError
ChainCompletes(c) ==
    /\ calls[c].pc = "awaiting"
    /\ \/ \E response \in LLMResponses :
             LET r == analyze_pitch(NoFailure, response)
             IN calls' = [calls EXCEPT ![c] =
                    IF r.exc = "none"
                    THEN [@ EXCEPT !.pc = "returned",
                                   !.result = [fields |-> r.record,
                                               analysis_id |-> Frame(c).analysis_id,
                                               content_statistics |->
                                                   Frame(c).content_stats]]
                    ELSE [@ EXCEPT !.pc = "raised", !.exc = r.exc]]
       \/ \E failure \in {f \in StepFailures : f.step = "llm"} :
             calls' = [calls EXCEPT ![c] =
                         [@ EXCEPT !.pc = "raised",
                                   !.exc = analyze_pitch(failure, {}).exc]]
    /\ UNCHANGED <<req, ext, db, coll, clock, nextId, ret>>

\* the caller has taken the record or the exception; the frame is gone
CallEnds(c) ==
    /\ calls[c].pc \in {"returned", "raised"}
    /\ calls' = [calls EXCEPT ![c] = NoFrame]
    /\ UNCHANGED <<req, ext, db, coll, clock, nextId, ret>>

Init ==
    /\ req = Idle
    /\ ext = ExtInit
    /\ db = "none"
    /\ coll = <<>>
    /\ clock = 0
    /\ nextId = 1
    /\ ret = NoRet
    /\ calls = [c \in Calls |-> NoFrame]

Next ==
    \/ PostAnalyzePitch
    \/ TextValidatePitch
    \/ TextAnalyze
    \/ ValidatorCall
    \/ PostAnalyzePdf
    \/ PdfValidateFile
    \/ Strategy1
    \/ Strategy2
    \/ Strategy3
    \/ PdfValidatePitch
    \/ PdfAnalyze
    \/ validation_exception_handler
    \/ pdf_processing_exception_handler
    \/ analysis_exception_handler
    \/ http_exception_handler
    \/ Respond

Spec == Init /\ [][Next]_vars

NextInvestor ==
    \/ connect_to_mongo
    \/ Tick
    \/ create_investor
    \/ update_investor
    \/ delete_investor
    \/ get_investor_by_id
    \/ bulk_create_investors

SpecInvestor == Init /\ [][NextInvestor]_vars

\* a connected database holding k investors
ListDoc(k) ==
    InvestorInDB([Investor_name |-> IF k % 2 = 1 THEN "a" ELSE "b",
                  Investor_type |-> CASE k % 3 = 1 -> "VC"
                                     [] k % 3 = 2 -> "Angel"
                                     [] OTHER -> "None",
                  Global_HQ |-> IF k % 4 \in {0, 1} THEN "US" ELSE "None",
                  Stage_of_investment |-> IF k % 2 = 0 THEN "Seed" ELSE "None",
                  Website |-> "None"], k, 0)

\* sizes of the collection: the small ones and the documented 45
DocCounts == (0..MaxDocs) \cup {45}

InitList ==
    /\ req = Idle
    /\ ext = ExtInit
    /\ db \in {"none", "connected"}
    /\ \E k \in DocCounts :
         /\ coll = [j \in 1..k |-> ListDoc(j)]
         /\ nextId = k + 1
    /\ clock = 0
    /\ ret = NoRet
    /\ calls = [c \in Calls |-> NoFrame]

NextList == get_investors

SpecList == InitList /\ [][NextList]_vars

\* a connected or unconnected database holding up to MaxDocs investors
InitFilter ==
    /\ req = Idle
    /\ ext = ExtInit
    /\ db \in {"none", "connected"}
    /\ \E k \in 0..MaxDocs :
         /\ coll = [j \in 1..k |-> ListDoc(j)]
         /\ nextId = k + 1
    /\ clock = 0
    /\ ret = NoRet
    /\ calls = [c \in Calls |-> NoFrame]

NextFilter == get_investors_filtered

SpecFilter == InitFilter /\ [][NextFilter]_vars

NextConcurrent ==
    \E c \in Calls :
        \/ CallAnalyzePitch(c)
        \/ ChainCompletes(c)
        \/ CallEnds(c)

SpecConcurrent == Init /\ [][NextConcurrent]_vars

(***************************************************************************)
(* Properties of the extraction pipeline.                                  *)
(***************************************************************************)
\* strategy i was attempted and produced trimmed text longer than 50
Produced(i) ==
    ext.out[i].st = "text" /\ TLen(ext.out[i].text) > ExtractThreshold

\* strategy i was attempted and threw or produced at most 50 characters
Rejected(i) ==
    \/ ext.out[i].st = "raised"
    \/ ext.out[i].st = "text" /\ TLen(ext.out[i].text) <= ExtractThreshold

Attempted(i) == \E k \in 1..Len(ext.attempts) : ext.attempts[k] = i

\* the request is past extract_text_from_pdf, which returned text
ExtractionReturned ==
    /\ req.kind = "pdf"
    /\ \/ req.pc \in {"validate_pitch", "analyze", "done"}
       \/ req.pc = "error" /\ req.err \in {"ValidationError", "AnalysisError"}
    /\ Len(ext.attempts) > 0

\* C1: given an encrypted PDF, only strategy 1 is ever attempted and the
\* call ends in PDFProcessingError as soon as strategy 1 has run.
C1_EncryptedFailsAtStrategy1 ==
    (req.kind = "pdf" /\ req.file.encrypted /\ Attempted(1)) =>
        /\ ~Attempted(2)
        /\ ~Attempted(3)
        /\ req.pc = "error"
        /\ req.err = "PDFProcessingError"

\* C2: the strategies are attempted in the order 1, 2, 3, none twice; a
\* strategy is attempted only if every earlier one threw or stayed at or
\* below the threshold, and nothing is attempted after an accepted one.
C2_StrategyOrder ==
    /\ Len(ext.attempts) <= 3
    /\ \A k \in 1..Len(ext.attempts) : ext.attempts[k] = k
    /\ \A i \in 1..3 : Attempted(i) <=> ext.out[i].st # "none"
    /\ \A i \in 1..3 : Attempted(i) => \A j \in 1..(i - 1) : Rejected(j)
    /\ \A i \in 1..3 : Produced(i) => \A j \in (i + 1)..3 : ~Attempted(j)

C2_Witness ==
    /\ ext.attempts = <<1, 2, 3>>
    /\ Produced(3)
    /\ req.pc = "validate_pitch"

\* the trimmed newline-joined text of the pages that yielded non-blank
\* text, written without strip() of the whole: only the first part can
\* start with white space and only the last can end with it
TrimmedJoin(pages) ==
    LET parts == text_parts(pages)
        n == Len(parts)
    IN IF n = 0 THEN <<>>
       ELSE IF n = 1 THEN RStrip(LStrip(parts[1]))
       ELSE LStrip(parts[1])
              \o Join([k \in 1..(n - 1) |->
                          NL \o (IF k = n - 1 THEN RStrip(parts[n]) ELSE parts[k + 1])],
                      <<>>)

\* C3: the text extract_text_from_pdf returns is the trimmed newline-joined
\* output of the lowest-numbered strategy whose output is strictly longer
\* than 50 characters; an output of exactly 50 characters is not accepted.
C3_ReturnsFirstAccepted ==
    /\ ExtractionReturned =>
         LET i == ext.attempts[Len(ext.attempts)]
         IN /\ Produced(i)
            /\ \A j \in 1..(i - 1) : ~Produced(j)
            /\ req.input = ext.out[i].text
            /\ req.input = TrimmedJoin(ext.pages)
            /\ TLen(req.input) > ExtractThreshold
            /\ ~IsSpace(req.input[1].c)
            /\ ~IsSpace(req.input[Len(req.input)].c)
    /\ \A i \in 1..3 :
         (Produced(i) /\ \A j \in 1..(i - 1) : Rejected(j)) =>
             ExtractionReturned /\ req.input = ext.out[i].text

C3_Witness ==
    /\ ExtractionReturned
    /\ req.pc = "validate_pitch"
    /\ ext.attempts = <<1, 2, 3>>
    /\ ext.out[1].st = "text"
    /\ ext.out[2].st = "text"
    /\ Len(text_parts(ext.pages)) >= 2
    /\ TLen(req.input) = ExtractThreshold + 1

\* C4: if each of the three strategies threw or yielded at most 50
\* characters the call ends in PDFProcessingError and returns no text, and
\* PDFProcessingError is never raised when some strategy produced more.
C4_AllFailRaises ==
    /\ (\A i \in 1..3 : Rejected(i)) =>
          req.pc = "error" /\ req.err = "PDFProcessingError"
    /\ (req.kind = "pdf" /\ req.err = "PDFProcessingError") =>
          /\ req.pc = "error"
          /\ \A i \in 1..3 : Rejected(i)

C4_Witness ==
    /\ req.err = "PDFProcessingError"
    /\ ext.out[1].st = "raised"
    /\ ext.out[2].st = "text"
    /\ TLen(ext.out[2].text) = ExtractThreshold
    /\ ext.out[3].st = "text"

(***************************************************************************)
(* Properties of the input validator.                                      *)
(***************************************************************************)
\* validate_file has run on the uploaded file of the request
FileValidated ==
    req.kind = "pdf" /\ req.pc # "validate_file" /\ req.err # "HTTPException"

\* validate_file raised ValidationError (no extraction was started)
FileRejected ==
    req.pc = "error" /\ req.err = "ValidationError" /\ ext.attempts = <<>>

\* C5: validate_file fails with ValidationError whenever the content is
\* empty, too large, or its sniffed MIME type is outside the allow-list,
\* whatever the filename; the filename is consulted only when sniffing
\* itself fails.
C5_ValidateFileRejects ==
    FileValidated =>
        /\ (\/ req.file.size = 0
            \/ req.file.size > max_file_size
            \/ req.file.mime # "sniff_error" /\ req.file.mime \notin allowed_file_type)
              => FileRejected
        /\ (/\ req.file.size > 0
            /\ req.file.size <= max_file_size
            /\ req.file.mime \in allowed_file_type)
              => ~FileRejected

\* validate_pitch_content has run on req.input
ValidatorActed ==
    \/ req.kind = "call"
    \/ req.kind = "text" /\ req.pc \in {"analyze", "done", "error"}
    \/ ExtractionReturned /\ req.pc # "validate_pitch"

\* every character of t is white space
AllSpace(t) == \A k \in 1..Len(t) : IsSpace(t[k].c)

\* number of characters of t between its first and its last character that
\* is not white space
StrippedLen(t) ==
    IF AllSpace(t) THEN 0
    ELSE LET first == CHOOSE k \in 1..Len(t) :
                         ~IsSpace(t[k].c) /\ \A j \in 1..(k - 1) : IsSpace(t[j].c)
             last == CHOOSE k \in 1..Len(t) :
                         ~IsSpace(t[k].c) /\ \A j \in (k + 1)..Len(t) : IsSpace(t[j].c)
         IN TLen(SubSeq(t, first, last))

ValidationFailed == req.pc = "error" /\ req.err = "ValidationError"

\* C6 as stated: text that is empty, only white space, shorter than the
\* minimum or longer than the maximum fails with ValidationError and the
\* analyzer is not invoked for that request.
C6_RejectsByLength ==
    (/\ ValidatorActed
     /\ \/ AllSpace(req.input)
        \/ TLen(req.input) < min_pitch_length
        \/ TLen(req.input) > max_pitch_length)
      => ValidationFailed /\ req.llm = 0

\* C6, amended: text that is empty, only white space, or whose length
\* after strip() is below the minimum or above the maximum fails with
\* ValidationError; a request whose validation failed never reaches the
\* analyzer, and the analyzer runs only on text that passed.
C6_RejectsByStrippedLength ==
    /\ (/\ ValidatorActed
        /\ \/ AllSpace(req.input)
           \/ StrippedLen(req.input) < min_pitch_length
           \/ StrippedLen(req.input) > max_pitch_length)
         => ValidationFailed
    /\ ValidationFailed => req.llm = 0
    /\ req.llm > 0 =>
         /\ ValidatorActed
         /\ StrippedLen(req.input) >= min_pitch_length
         /\ StrippedLen(req.input) <= max_pitch_length

C6_Witness ==
    /\ ExtractionReturned
    /\ ValidationFailed
    /\ TLen(req.input) > ExtractThreshold
    /\ TLen(req.input) < min_pitch_length
    /\ req.llm = 0

RECURSIVE Unescape(_)
\* html.unescape on the entities the sanitizer writes
Unescape(t) ==
    IF t = <<>> THEN <<>>
    ELSE IF Head(t).c = "&" /\ Len(t) >= 2 /\ t[2].c \in {"amp;", "lt;", "gt;"}
         THEN <<Run(CASE t[2].c = "amp;" -> "&" [] t[2].c = "lt;" -> "<" [] OTHER -> ">", 1)>>
                \o Unescape(SubSeq(t, 3, Len(t)))
         ELSE <<Head(t)>> \o Unescape(Tail(t))

\* t holds a complete tag: "<" directly followed by a letter, closed by a
\* later ">"
HasTag(t) ==
    \E i \in 1..Len(t) : \E j \in (i + 2)..Len(t) :
       t[i].c = "<" /\ t[i + 1].c = "x" /\ t[j].c = ">"

\* no "<" or ">" is left, and every "&" starts an entity
NoUnescaped(t) ==
    \A k \in 1..Len(t) :
       /\ t[k].c \notin {"<", ">"}
       /\ t[k].c = "&" =>
            /\ t[k].n = 1
            /\ k < Len(t)
            /\ t[k + 1].c \in {"amp;", "lt;", "gt;"}

\* C7: for text whose stripped length lies between the minimum and the
\* maximum (both included) validate_pitch_content succeeds, and the text it
\* returns holds no markup tag and no unescaped "<", ">" or "&".
C7_ValidTextSanitized ==
    (/\ ValidatorActed
     /\ StrippedLen(req.input) >= min_pitch_length
     /\ StrippedLen(req.input) <= max_pitch_length)
      => /\ ~ValidationFailed
         /\ NoUnescaped(req.out)
         /\ ~HasTag(Unescape(Unescape(req.out)))

C7_Witness ==
    /\ ValidatorActed
    /\ ~ValidationFailed
    /\ HasTag(req.input)
    /\ StrippedLen(req.input) = min_pitch_length + 3
    /\ TLen(req.out) = min_pitch_length

(***************************************************************************)
(* Properties of the analysis endpoints and of the analyzer.               *)
(***************************************************************************)
\* the caller of an endpoint has been sent a status
Answered == req.kind \in {"text", "pdf"} /\ req.status # 0

\* the text is empty, only white space, shorter than the minimum or longer
\* than the maximum
PitchInvalid(t) ==
    AllSpace(t) \/ TLen(t) < min_pitch_length \/ TLen(t) > max_pitch_length

\* C11: POST /analyze_pitch answers 400 to every request whose pitch text
\* fails validation, and a ValidationError is answered with 400, a
\* PDFProcessingError with 422 and an AnalysisError with 500.
C11_StatusMapping ==
    Answered =>
        /\ (req.kind = "text" /\ PitchInvalid(req.input)) => req.status = 400
        /\ req.err = "ValidationError" => req.status = 400
        /\ req.err = "PDFProcessingError" => req.status = 422
        /\ req.err = "AnalysisError" => req.status = 500

\* the literal messages of main.py and the plain error page of the server
GenericMessages ==
    {"Analysis service temporarily unavailable. Please try again later.",
     "An unexpected error occurred. Please try again later.",
     "Analysis service temporarily unavailable",
     "Internal Server Error"}

\* C12: a request that failed in analysis, or with an exception no except
\* clause names, is answered with status 500 and a message fixed for that
\* kind of failure; the message is none of the exception details, so two
\* such requests that differ only in the detail are answered alike.
C12_GenericFailureResponse ==
    (Answered /\ req.err \in {"AnalysisError", "HTTPException"}) =>
        /\ req.status = 500
        /\ req.body \in GenericMessages
        /\ req.body = (IF req.err = "AnalysisError" THEN "Internal Server Error"
                       ELSE "Analysis service temporarily unavailable")
        /\ req.body # req.failure.detail
        /\ req.body # req.msg.cause

C12_Witness ==
    /\ Answered
    /\ req.err = "AnalysisError"
    /\ req.failure.step = "llm"
    /\ req.failure.detail = "invalid api key sk-1"
    /\ req.msg.cause = "invalid api key sk-1"
    /\ req.status = 500

\* C14: a feedback record that analyze_pitch returns, and so the record of
\* every successful answer of the two endpoints, carries all nine
\* sections; an LLM answer that lacks a section yields no record and ends
\* in AnalysisError.
C14_AllSectionsOrError ==
    /\ (req.kind \in {"text", "pdf"} /\ req.pc = "done") => Sections \subseteq req.record
    /\ req.record # {} => Sections \subseteq req.record
    /\ (req.llm > 0 /\ req.response # {} /\ ~(Sections \subseteq req.response)) =>
          /\ req.pc = "error"
          /\ req.err = "AnalysisError"
          /\ req.record = {}

C14_Witness ==
    /\ req.kind = "pdf"
    /\ req.llm = 1
    /\ req.response = RequiredFields \ {"vision"}
    /\ req.failure.step = "parse"
    /\ req.err = "AnalysisError"
    /\ req.record = {}

\* the steps of the try block of analyze_pitch
AnalysisSteps == {"content_stats", "prompt", "llm", "parse", "metadata"}

C19_AnalyzerInputBounded ==
    (req.kind \in {"text", "pdf"} /\ (req.pc = "analyze" \/ req.llm > 0)) =>
        /\ TLen(req.out) >= min_pitch_length
        /\ TLen(req.out) <= max_pitch_length

\* C23: in /analyze_pdf extraction starts only after validate_file
\* accepted the file, validate_pitch_content runs only on text a strategy
\* accepted, and analyze_pitch is called only after validate_pitch_content
\* accepted that text; extracted text shorter than the minimum pitch length
\* ends the request with ValidationError before the analyzer is called.
C23_PdfStepOrder ==
    [][req'.kind = "pdf" =>
          /\ (req'.pc = "s1" /\ req.pc # "s1") =>
                req.pc = "validate_file" /\ validate_file(req.file) = "none"
          /\ ext'.attempts # ext.attempts =>
                /\ req.pc \in {"s1", "s2", "s3"}
                /\ validate_file(req.file) = "none"
                /\ req.llm = 0
          /\ (req'.pc = "validate_pitch" /\ req.pc # "validate_pitch") =>
                /\ req.pc \in {"s1", "s2", "s3"}
                /\ ext'.attempts # ext.attempts
                /\ TLen(req'.input) > ExtractThreshold
          /\ (req'.pc = "analyze" /\ req.pc # "analyze") =>
                /\ req.pc = "validate_pitch"
                /\ TLen(req.input) >= min_pitch_length
                /\ TLen(req.input) <= max_pitch_length
          /\ req'.llm # req.llm =>
                req.pc = "analyze" /\ req.llm = 0 /\ ext'.attempts = ext.attempts
          /\ (req.pc = "validate_pitch" /\ req' # req
                /\ TLen(req.input) < min_pitch_length) =>
                /\ req'.pc = "error"
                /\ req'.err = "ValidationError"
                /\ req'.llm = 0]_vars

C23_Witness ==
    /\ req.kind = "pdf"
    /\ req.pc = "error"
    /\ req.err = "ValidationError"
    /\ req.status # 0
    /\ ext.attempts = <<1, 2>>
    /\ ext.out[2].st = "text"
    /\ TLen(req.input) = ExtractThreshold + 1
    /\ req.llm = 0

\* C22: a request that has entered the body of /analyze_pitch or
\* /analyze_pdf has incremented pitch_analyses_total exactly once when the
\* body is left: with status success exactly when the body returned a
\* record, with status error exactly when it raised; none is counted under
\* both, a request refused before the body is not counted, and no step
\* lowers a count.
C22_CountedOnce ==
    [][/\ req'.counts.success + req'.counts.error <= 1
       /\ req'.kind \in {"text", "pdf"} =>
             /\ req'.counts.success = 1 <=>
                   /\ req'.pc = "done"
                   /\ req'.record # {}
                   /\ req'.body = "analysis"
             /\ req'.counts.error = 1 <=> req'.pc = "error"
             /\ req'.pc \notin {"done", "error"} =>
                   req'.counts = [success |-> 0, error |-> 0]
       /\ req'.kind \notin {"text", "pdf"} =>
             req'.counts = [success |-> 0, error |-> 0]
       /\ req'.kind = req.kind =>
             /\ req'.counts.success >= req.counts.success
             /\ req'.counts.error >= req.counts.error]_vars

C22_Witness ==
    /\ req.kind = "pdf"
    /\ req.pc = "error"
    /\ req.err = "PDFProcessingError"
    /\ Answered
    /\ req.counts = [success |-> 0, error |-> 1]

\* C21: with several analyze_pitch calls in flight and interleaved at the
\* await, every returned record carries the analysis identifier generated
\* in its own call and the content statistics of its own input text, and
\* a step of one call changes nothing in the frame of another.
C21_CallsIsolated ==
    [][\A c \in Calls :
          /\ calls'[c].pc = "returned" =>
                /\ calls'[c].result.analysis_id = calls'[c].analysis_id
                /\ calls'[c].result.content_statistics =
                       _calculate_content_stats(calls'[c].pitch_content)
                /\ Sections \subseteq calls'[c].result.fields
          /\ calls'[c].pc = "awaiting" /\ calls[c].pc = "awaiting" =>
                calls'[c] = calls[c]
          /\ (\E d \in Calls \ {c} : calls'[d] # calls[d]) =>
                calls'[c] = calls[c]]_vars

C21_Witness ==
    /\ calls[1].pc = "awaiting"
    /\ calls[2].pc = "returned"
    /\ calls[1].analysis_id # calls[2].analysis_id
    /\ calls[1].pitch_content = X(90)
    /\ calls[2].pitch_content = X(45) \o SP \o X(45)
    /\ calls[2].result.analysis_id = calls[2].analysis_id
    /\ calls[2].result.content_statistics = [word_count |-> 2, character_count |-> 91]

(***************************************************************************)
(* Properties of the investor catalog.                                     *)
(***************************************************************************)
\* C8: with a syntactically invalid identifier get_investor_by_id returns
\* None and update_investor and delete_investor return False; none raises
\* and no write is issued, whatever the state of the database connection.
C8_InvalidIdNeverRaises ==
    (ret.op \in {"get", "update", "delete"} /\ ~ret.valid) =>
        /\ ret.result = (IF ret.op = "get" THEN "None" ELSE "False")
        /\ ~ret.wrote

\* C9: an update_investor that reaches an existing record sets exactly the
\* fields supplied with a non-null value and updated_at, which is set to
\* the current time; every other field, and every other record, keeps its
\* value.
C9_UpdateFrame ==
    [][\A id \in IdInputs, data \in UpdateInputs :
          (/\ get_collection(db) = "none"
           /\ is_valid(id)
           /\ Find(coll, ObjectId(id)) # 0
           /\ UpdateInvestor(id, data, FALSE))
            => LET i == Find(coll, ObjectId(id))
               IN /\ Len(coll') = Len(coll)
                  /\ \A k \in 1..Len(coll) : k # i => coll'[k] = coll[k]
                  /\ \A f \in DOMAIN coll[i] \ {"updated_at"} :
                        coll'[i][f] = IF f \in DOMAIN data /\ data[f] # "None"
                                      THEN data[f]
                                      ELSE coll[i][f]
                  /\ coll'[i]["updated_at"] = clock]_vars

C9_Witness ==
    /\ ret.op = "update"
    /\ ret.result = "True"
    /\ Len(coll) = 2
    /\ coll[1]["Investor_name"] = "a"
    /\ coll[1]["Website"] = "x"
    /\ coll[1]["created_at"] = 0
    /\ coll[1]["updated_at"] = 1
    /\ coll[2]["Website"] = "None"
    /\ coll[2]["updated_at"] = 0

\* C10: for page >= 1 and page_size >= 1 get_investors reports
\* total_pages = ceil(total_count / page_size), skips (page - 1) * page_size
\* records, returns at most page_size records, has_prev = (page > 1) and
\* has_next = (page < total_pages), which is true exactly when records
\* exist beyond the current page; 45 records in pages of 20 give 3 pages.
C10_Pagination ==
    (ret.op = "list" /\ ret.result = "ok") =>
        LET r == ret.list
            total == r.total_count
            size == r.page_size
            page == r.page
            rest == total - r.skip
        IN /\ total = Len(coll)
           /\ r.total_pages * size >= total
           /\ (r.total_pages - 1) * size < total
           /\ r.skip = (page - 1) * size
           /\ Len(r.investors) <= size
           /\ Len(r.investors) =
                 (IF rest <= 0 THEN 0 ELSE IF rest < size THEN rest ELSE size)
           /\ r.has_prev <=> page > 1
           /\ r.has_next <=> page < r.total_pages
           /\ r.has_next <=> total > page * size
           /\ (total = 45 /\ size = 20) => r.total_pages = 3
           /\ (total = 45 /\ size = 20 /\ page = 1) => r.has_next /\ ~r.has_prev
           /\ (total = 45 /\ size = 20 /\ page = 3) => ~r.has_next /\ r.has_prev

C10_Witness ==
    /\ ret.op = "list"
    /\ ret.result = "ok"
    /\ ret.list.total_count = 45
    /\ ret.list.page_size = 20
    /\ ret.list.page = 3
    /\ Len(ret.list.investors) = 5
    /\ ~ret.list.has_next

\* C13: in every operation of the investor catalog an exception raised by
\* the database driver reaches the caller as an exception; it is never
\* reported as the None or False of a missing or invalid identifier.
C13_BackendFailuresPropagate ==
    (ret.op # "none" /\ ret.backend # "none") =>
        /\ ret.result = "raise"
        /\ ret.exc # "none"

\* C15: no step changes the identifier of a stored record: a step keeps
\* every record in place with its _id and may append records with fresh
\* identifiers, or it removes one record and keeps the others as they are.
C15_IdentifierImmutable ==
    [][\/ /\ Len(coll') >= Len(coll)
          /\ \A k \in 1..Len(coll) : coll'[k]["_id"] = coll[k]["_id"]
          /\ \A k \in (Len(coll) + 1)..Len(coll') :
                coll'[k]["_id"] = nextId + (k - Len(coll) - 1)
       \/ /\ Len(coll') = Len(coll) - 1
          /\ \E i \in 1..Len(coll) :
                coll' = SubSeq(coll, 1, i - 1) \o SubSeq(coll, i + 1, Len(coll))]_vars

C15_Witness ==
    /\ ret.op = "update"
    /\ ret.backend = "WriteError"
    /\ ret.matched
    /\ Len(coll) = 1
    /\ coll[1]["_id"] = 2

\* the records of the batch that carry the required name
ValidRecords(batch) == SelectSeq(batch, LAMBDA d : d["Investor_name"] # "None")

\* C17: a bulk_create_investors whose insert succeeds appends one document
\* for each valid record of the batch, in order and with the values given,
\* whatever invalid records stand between them, and returns their number;
\* with no valid record it writes nothing and returns 0.
C17_BulkCreate ==
    [][\A batch \in Batches :
          (get_collection(db) = "none" /\ BulkCreateInvestors(batch, FALSE)) =>
              LET valid == ValidRecords(batch)
              IN /\ ret'.result = "count"
                 /\ ret'.count = Len(valid)
                 /\ Len(coll') = Len(coll) + ret'.count
                 /\ SubSeq(coll', 1, Len(coll)) = coll
                 /\ \A j \in 1..Len(valid) : \A f \in DOMAIN valid[j] :
                       coll'[Len(coll) + j][f] = valid[j][f]
                 /\ ret'.wrote <=> valid # <<>>]_vars

C17_Witness ==
    /\ ret.op = "bulk"
    /\ ret.result = "count"
    /\ ret.given = 2
    /\ ret.count = 1
    /\ ret.wrote
    /\ Len(coll) = 2

\* update_investor(id, data, fail) answers True exactly when the record
\* named by id exists and the step changed it, and False otherwise
UpdateReportsChange(id, data, fail) ==
    (get_collection(db) = "none" /\ UpdateInvestor(id, data, fail)) =>
        /\ ret'.result \in {"True", "False"}
        /\ ret'.result = "True" <=>
              /\ is_valid(id)
              /\ \E i \in 1..Len(coll) :
                    coll[i]["_id"] = ObjectId(id) /\ coll'[i] # coll[i]
        /\ ret'.result = "False" => coll' = coll

\* C18: update_investor returns True exactly when a record with the
\* identifier exists and the update changed one of its stored values, and
\* False otherwise.
C18_UpdateReportsChange ==
    [][\A id \in IdInputs, fail \in BOOLEAN :
          /\ \A data \in UpdateInputs : UpdateReportsChange(id, data, fail)
          /\ \A data \in IdUpdateInputs : UpdateReportsChange(id, data, fail)]_vars

C18_Witness ==
    /\ ret.op = "update"
    /\ ret.valid
    /\ ret.matched
    /\ ret.backend = "none"
    /\ ret.result = "False"
    /\ Len(coll) = 1

\* the record passes every filter that is set, and the search pattern, if
\* set, occurs in one of the four searched fields
Satisfies(doc, f) ==
    /\ f.type = "None" \/ RegexMatch(f.type, doc["Investor_type"])
    /\ f.location = "None" \/ RegexMatch(f.location, doc["Global_HQ"])
    /\ f.investment_stage = "None"
          \/ RegexMatch(f.investment_stage, doc["Stage_of_investment"])
    /\ \/ f.search = "None"
       \/ RegexMatch(f.search, doc["Investor_name"])
       \/ RegexMatch(f.search, doc["Investor_type"])
       \/ RegexMatch(f.search, doc["Global_HQ"])
       \/ RegexMatch(f.search, doc["Stage_of_investment"])

====
